---- MODULE Spec2Model ----
(***************************************************************************)
(* A model of the realtime speech gateway (fisschl/agent-backend): the     *)
(* transcription bridge (handlers/asr_realtime.rs) and the synthesis       *)
(* bridge (handlers/tts_realtime.rs).                                      *)
(*                                                                         *)
(* One session is modelled: sessions share no state.  Each bridge is an   *)
(* async function; its two forwarding loops are futures polled by one     *)
(* tokio::select!, so a step of the model runs one future from one        *)
(* suspension point (a receive or a pacing sleep) to the next.  A send is *)
(* a call with a nondeterministic outcome (Ok or Err); every send call is *)
(* recorded, with its outcome, in the log of the transport it is made on. *)
(***************************************************************************)
EXTENDS Integers, Sequences, FiniteSets, TLC

(***************************************************************************)
(* Bounds of the model.                                                    *)
(***************************************************************************)
\* Items the bridge reads, from the client and from upstream together, in
\* one session.
MaxItems == 3

(***************************************************************************)
(* Characters.  A text is a sequence of characters; a character is a       *)
(* token naming one Unicode scalar value.                                  *)
(***************************************************************************)
SP == " "
LF == "LF"
CR == "CR"
TAB == "TAB"

\* char::is_alphabetic in the sense of the regex class \p{L}
IsLetter(c) == c \in {"a", "b", "A", "FWA", "zh", "JL", "JV", "HS"}

\* the regex class \p{N}
IsNumber(c) == c \in {"7"}

\* the regex class \p{Zs}
IsSeparatorSpace(c) == c \in {SP, "NBSP"}

\* char::is_whitespace (the Unicode White_Space property)
IsWhitespace(c) == c \in {SP, LF, CR, TAB, "NBSP", "LSEP"}

\* The number of bytes of the character's UTF-8 encoding (str::len counts bytes).
Utf8Len(c) ==
  CASE c \in {"zh", "IDCOMMA", "IDSTOP", "FWA", "FWCOMMA", "FWSTOP", "ELLIPSIS", "LSEP",
              "JL", "JV", "HS"} -> 3
    [] c = "NBSP" -> 2
    [] c = "EMOJI" -> 4
    [] OTHER -> 1

RECURSIVE ByteLen(_)
ByteLen(s) == IF s = <<>> THEN 0 ELSE Utf8Len(Head(s)) + ByteLen(Tail(s))

\* The NFKC form of one character on its own.  "JL" and "JV" are the Hangul
\* conjoining jamo U+1100 and U+1161 (letters, like every jamo); "HS" is the
\* syllable U+AC00 they compose to.  No combining mark is modelled.
Nfkc(c) ==
  CASE c = "FWA" -> <<"A">>
    [] c = "FWCOMMA" -> <<",">>
    [] c = "FWSTOP" -> <<".">>
    [] c = "NBSP" -> <<SP>>
    [] c = "ELLIPSIS" -> <<".", ".", ".">>
    [] OTHER -> <<c>>

(***************************************************************************)
(* sanitize_text, step by step.                                            *)
(***************************************************************************)
\* text.replace("\r\n", "\n").replace('\r', "\n")
RECURSIVE NormalizeLines(_)
NormalizeLines(s) ==
  IF s = <<>> THEN <<>>
  ELSE IF Head(s) = CR /\ Len(s) >= 2 /\ s[2] = LF
       THEN <<LF>> \o NormalizeLines(SubSeq(s, 3, Len(s)))
  ELSE IF Head(s) = CR THEN <<LF>> \o NormalizeLines(Tail(s))
  ELSE <<Head(s)>> \o NormalizeLines(Tail(s))

\* The compatibility decomposition of a text.
RECURSIVE Decompose(_)
Decompose(s) ==
  IF s = <<>> THEN <<>>
  ELSE (IF Head(s) = "HS" THEN <<"JL", "JV">> ELSE Nfkc(Head(s))) \o Decompose(Tail(s))

\* The canonical composition of a decomposed text: a leading consonant and
\* the vowel that follows it at once compose to their syllable.
RECURSIVE Compose(_)
Compose(s) ==
  IF s = <<>> THEN <<>>
  ELSE IF Len(s) >= 2 /\ s[1] = "JL" /\ s[2] = "JV"
       THEN <<"HS">> \o Compose(SubSeq(s, 3, Len(s)))
  ELSE <<Head(s)>> \o Compose(Tail(s))

\* normalized_lines.nfkc().collect()
NfkcText(s) == Compose(Decompose(s))

\* every whitespace character but line-feed becomes a space
UnifyWhitespace(s) ==
  [i \in 1..Len(s) |->
     IF s[i] = LF THEN LF ELSE IF IsWhitespace(s[i]) THEN SP ELSE s[i]]

\* A bug to detect: the character class also keeps the exclamation mark.
WhitelistedWithBang(c) ==
  \/ IsLetter(c) \/ IsNumber(c) \/ IsSeparatorSpace(c)
  \/ c \in {",", "FWCOMMA", "IDCOMMA", ".", "IDSTOP", "FWSTOP", LF, "!"}

\* the whitelist of the filter's character class
Whitelisted(c) ==
  \/ IsLetter(c) \/ IsNumber(c) \/ IsSeparatorSpace(c)
  \/ c \in {",", "FWCOMMA", "IDCOMMA", ".", "IDSTOP", "FWSTOP", LF}

\* re.replace_all(&unified_whitespace, "")
FilterSymbols(s) == SelectSeq(s, Whitelisted)

\* re_spaces.replace_all(&filtered, " "): a run of spaces becomes one space
RECURSIVE CompressSpaces(_)
CompressSpaces(s) ==
  IF s = <<>> THEN <<>>
  ELSE IF Head(s) = SP /\ Len(s) >= 2 /\ s[2] = SP THEN CompressSpaces(Tail(s))
  ELSE <<Head(s)>> \o CompressSpaces(Tail(s))

\* re_newlines.replace_all(&compressed_spaces, "\n\n"): a run of three or
\* more line-feeds becomes two
RECURSIVE CompressNewlines(_)
CompressNewlines(s) ==
  IF s = <<>> THEN <<>>
  ELSE IF Len(s) >= 3 /\ s[1] = LF /\ s[2] = LF /\ s[3] = LF
       THEN CompressNewlines(Tail(s))
  ELSE <<Head(s)>> \o CompressNewlines(Tail(s))

\* str::trim_start
RECURSIVE TrimStart(_)
TrimStart(s) ==
  IF s # <<>> /\ IsWhitespace(Head(s)) THEN TrimStart(Tail(s)) ELSE s

\* A bug to detect: only spaces are trimmed from the end.
RECURSIVE TrimEndSpaces(_)
TrimEndSpaces(s) ==
  IF s # <<>> /\ s[Len(s)] = SP
  THEN TrimEndSpaces(SubSeq(s, 1, Len(s) - 1)) ELSE s

\* str::trim_end
RECURSIVE TrimEnd(_)
TrimEnd(s) ==
  IF s # <<>> /\ IsWhitespace(s[Len(s)])
  THEN TrimEnd(SubSeq(s, 1, Len(s) - 1)) ELSE s

sanitize_text(text) ==
  TrimEnd(TrimStart(CompressNewlines(CompressSpaces(FilterSymbols(
    UnifyWhitespace(NfkcText(NormalizeLines(text))))))))

\* str::split_whitespace: the maximal runs of non-whitespace characters
RECURSIVE SplitWhitespaceFrom(_, _)
SplitWhitespaceFrom(s, cur) ==
  IF s = <<>> THEN (IF cur = <<>> THEN <<>> ELSE <<cur>>)
  ELSE IF IsWhitespace(Head(s))
       THEN (IF cur = <<>> THEN <<>> ELSE <<cur>>) \o SplitWhitespaceFrom(Tail(s), <<>>)
  ELSE SplitWhitespaceFrom(Tail(s), Append(cur, Head(s)))

\* A bug to detect: the text is split at every space (str::split(' ')), so a
\* line-feed does not separate and nothing is left out of the pieces.
RECURSIVE SplitAtSpacesFrom(_, _)
SplitAtSpacesFrom(s, cur) ==
  IF s = <<>> THEN <<cur>>
  ELSE IF Head(s) = SP THEN <<cur>> \o SplitAtSpacesFrom(Tail(s), <<>>)
  ELSE SplitAtSpacesFrom(Tail(s), Append(cur, Head(s)))

SplitAtSpaces(s) == SplitAtSpacesFrom(s, <<>>)

split_whitespace(s) == SplitWhitespaceFrom(s, <<>>)

\* The length above which the sanitized text is split.
ChunkThreshold == 100

\* A bug to detect: a text of exactly the threshold is split too.
ChunksAtThreshold(text_str) ==
  IF ByteLen(text_str) >= ChunkThreshold
  THEN split_whitespace(text_str)
  ELSE <<text_str>>

\* The chunks one client text frame is sent as.
Chunks(text_str) ==
  IF ByteLen(text_str) > ChunkThreshold
  THEN split_whitespace(text_str)
  ELSE <<text_str>>

(***************************************************************************)
(* Base64, the STANDARD engine: the standard alphabet, canonical padding.  *)
(***************************************************************************)
B64Alphabet ==
  << "A", "B", "C", "D", "E", "F", "G", "H", "I", "J", "K", "L", "M",
     "N", "O", "P", "Q", "R", "S", "T", "U", "V", "W", "X", "Y", "Z",
     "a", "b", "c", "d", "e", "f", "g", "h", "i", "j", "k", "l", "m",
     "n", "o", "p", "q", "r", "s", "t", "u", "v", "w", "x", "y", "z",
     "0", "1", "2", "3", "4", "5", "6", "7", "8", "9", "+", "/" >>

\* A bug to detect: the URL-safe alphabet is used to encode.
B64CharUrlSafe(n) ==
  IF n = 62 THEN "-" ELSE IF n = 63 THEN "_" ELSE B64Alphabet[n + 1]

B64Char(n) == B64Alphabet[n + 1]

\* A bug to detect: the URL-safe alphabet is used to decode.
IsB64CharUrlSafe(c) == c \in {"-", "_"} \/ \E i \in 1..62 : B64Alphabet[i] = c

IsB64Char(c) == \E i \in 1..64 : B64Alphabet[i] = c

B64Value(c) == (CHOOSE i \in 1..64 : B64Alphabet[i] = c) - 1

\* STANDARD.encode
RECURSIVE Base64Encode(_)
Base64Encode(bytes) ==
  IF bytes = <<>> THEN <<>>
  ELSE IF Len(bytes) = 1 THEN
    << B64Char(bytes[1] \div 4), B64Char((bytes[1] % 4) * 16), "=", "=" >>
  ELSE IF Len(bytes) = 2 THEN
    << B64Char(bytes[1] \div 4),
       B64Char((bytes[1] % 4) * 16 + bytes[2] \div 16),
       B64Char((bytes[2] % 16) * 4), "=" >>
  ELSE
    << B64Char(bytes[1] \div 4),
       B64Char((bytes[1] % 4) * 16 + bytes[2] \div 16),
       B64Char((bytes[2] % 16) * 4 + bytes[3] \div 64),
       B64Char(bytes[3] % 64) >> \o Base64Encode(SubSeq(bytes, 4, Len(bytes)))

\* STANDARD.decode: [ok |-> whether the text decodes, bytes |-> its bytes].
\* The text must be a whole number of quads, padded only at its end, with
\* the unused bits of the last symbol zero.
RECURSIVE Base64Decode(_)
Base64Decode(s) ==
  IF s = <<>> THEN [ok |-> TRUE, bytes |-> <<>>]
  ELSE IF Len(s) < 4 \/ ~IsB64Char(s[1]) \/ ~IsB64Char(s[2])
       THEN [ok |-> FALSE, bytes |-> <<>>]
  ELSE
    LET v1 == B64Value(s[1])
        v2 == B64Value(s[2])
        b1 == v1 * 4 + v2 \div 16
    IN IF s[3] = "=" THEN
         IF Len(s) = 4 /\ s[4] = "=" /\ v2 % 16 = 0
         THEN [ok |-> TRUE, bytes |-> <<b1>>]
         ELSE [ok |-> FALSE, bytes |-> <<>>]
       ELSE IF ~IsB64Char(s[3]) THEN [ok |-> FALSE, bytes |-> <<>>]
       ELSE
         LET v3 == B64Value(s[3])
             b2 == (v2 % 16) * 16 + v3 \div 4
         IN IF s[4] = "=" THEN
              IF Len(s) = 4 /\ v3 % 4 = 0
              THEN [ok |-> TRUE, bytes |-> <<b1, b2>>]
              ELSE [ok |-> FALSE, bytes |-> <<>>]
            ELSE IF ~IsB64Char(s[4]) THEN [ok |-> FALSE, bytes |-> <<>>]
            ELSE
              LET rest == Base64Decode(SubSeq(s, 5, Len(s)))
                  b3 == (v3 % 4) * 64 + B64Value(s[4])
              IN IF rest.ok
                 THEN [ok |-> TRUE, bytes |-> <<b1, b2, b3>> \o rest.bytes]
                 ELSE [ok |-> FALSE, bytes |-> <<>>]

(***************************************************************************)
(* Frames and events.  Every record of one kind has the same fields.       *)
(***************************************************************************)
\* Option<CloseFrame>: None, or Some(code, reason)
NoCloseFrame == [present |-> FALSE, code |-> 0, reason |-> ""]
CloseFrame(code, reason) == [present |-> TRUE, code |-> code, reason |-> reason]

\* A client-side frame (axum::extract::ws::Message), read or sent.
ClientText(text) == [kind |-> "Text", text |-> text, data |-> <<>>, close |-> NoCloseFrame]
ClientBinary(data) == [kind |-> "Binary", text |-> <<>>, data |-> data, close |-> NoCloseFrame]
ClientClose(cf) == [kind |-> "Close", text |-> <<>>, data |-> <<>>, close |-> cf]
ClientOther(kind) == [kind |-> kind, text |-> <<>>, data |-> <<>>, close |-> NoCloseFrame]

\* The "session" object of a session.update event.
NoSession ==
  [modalities |-> <<>>, input_audio_format |-> "", response_format |-> "",
   sample_rate |-> 0, turn_detection |-> "", voice |-> ""]

AsrSampleRate == 16000
TtsSampleRate == 24000

AsrSession ==
  [modalities |-> <<"text">>, input_audio_format |-> "pcm", response_format |-> "",
   sample_rate |-> AsrSampleRate, turn_detection |-> "server_vad", voice |-> ""]

\* A bug to detect: the voice of the query is ignored for a fixed voice.
TtsSessionFixedVoice(v) ==
  [modalities |-> <<>>, input_audio_format |-> "", response_format |-> "pcm",
   sample_rate |-> 24000, turn_detection |-> "", voice |-> "Cherry"]

TtsSession(v) ==
  [modalities |-> <<>>, input_audio_format |-> "", response_format |-> "pcm",
   sample_rate |-> TtsSampleRate, turn_detection |-> "", voice |-> v]

\* An upstream-side message the bridge sends (tungstenite Message): a JSON
\* event in a text message, or a close.  payload is the event's "audio" or
\* "text" member.
UpstreamEvent(type, id, payload, session) ==
  [kind |-> "Text", type |-> type, event_id |-> id, payload |-> payload,
   session |-> session, close |-> NoCloseFrame]

UpstreamClose(cf) ==
  [kind |-> "Close", type |-> "", event_id |-> 0, payload |-> <<>>,
   session |-> NoSession, close |-> cf]

\* A member of a JSON object received from upstream: absent, a string, or a
\* value of another JSON type.
NoType == [t |-> "absent", v |-> ""]
StrType(s) == [t |-> "string", v |-> s]
NumType == [t |-> "other", v |-> ""]
NoMember == [t |-> "absent", v |-> <<>>]
StrMember(s) == [t |-> "string", v |-> s]
NumMember == [t |-> "other", v |-> <<>>]

\* json_value.get(key).and_then(|v| v.as_str())
AsStr(member) == [some |-> member.t = "string", v |-> member.v]

\* An upstream-side message the bridge reads.  parses: whether
\* serde_json::from_str accepts the text.
UpstreamText(parses, type, text, delta) ==
  [kind |-> "Text", parses |-> parses, type |-> type, text |-> text,
   delta |-> delta, close |-> NoCloseFrame]

UpstreamOther(kind) ==
  [kind |-> kind, parses |-> FALSE, type |-> NoType, text |-> NoMember,
   delta |-> NoMember, close |-> NoCloseFrame]

UpstreamCloseMsg(cf) ==
  [kind |-> "Close", parses |-> FALSE, type |-> NoType, text |-> NoMember,
   delta |-> NoMember, close |-> cf]

(***************************************************************************)
(* The inputs of a session.                                                *)
(***************************************************************************)
Modes == {"asr", "tts"}

\* The configured credential: one that is a legal header value, one that is
\* not (HeaderValue::from_str rejects a line break).
ApiKeys == {"sk-key", "sk-key-LF"}
HeaderValueOk(value) == value # "sk-key-LF"

Voices == {"Cherry", "Ethan"}

Rep(c, n) == [i \in 1..n |-> c]

\* Texts a synthesis client sends: one that sanitizes to a short text, one
\* that sanitizes to the empty text, one that sanitizes to more than
\* ChunkThreshold bytes.
ClientTexts ==
  { <<"a", "*", SP, SP, "b", "!">>,
    <<"*", "!">>,
    Rep("zh", 17) \o <<SP, LF>> \o Rep("zh", 17) }

\* Audio a transcription client sends.
AudioFrames == { <<77, 97>>, <<255>> }

ClientFramesIn(m) ==
  (IF m = "tts" THEN {ClientText(t) : t \in ClientTexts} \cup {ClientBinary(<<77>>)}
   ELSE {ClientBinary(d) : d \in AudioFrames} \cup {ClientText(<<"a">>)})
  \cup {ClientOther("Ping"), ClientClose(CloseFrame(1000, "bye")),
        ClientClose(NoCloseFrame), ClientOther("Err"), ClientOther("End")}

TranscriptionText == "conversation.item.input_audio_transcription.text"
TranscriptionFailed == "conversation.item.input_audio_transcription.failed"
AudioDelta == "response.audio.delta"

UpstreamMsgsIn(m) ==
  (IF m = "tts"
   THEN { UpstreamText(TRUE, StrType(AudioDelta), NoMember, StrMember(Base64Encode(<<1, 2>>))),
          UpstreamText(TRUE, StrType(AudioDelta), NoMember, StrMember(Base64Encode(<<255, 0, 7>>))),
          UpstreamText(TRUE, StrType(AudioDelta), NoMember, NoMember),
          UpstreamText(TRUE, StrType(AudioDelta), NoMember, NumMember),
          UpstreamText(TRUE, StrType(AudioDelta), NoMember, StrMember(<<"A", "Q", "=">>)),
          UpstreamText(TRUE, StrType("response.done"), NoMember, StrMember(Base64Encode(<<1, 2>>))),
          UpstreamText(TRUE, NoType, NoMember, StrMember(Base64Encode(<<1, 2>>))),
          UpstreamText(TRUE, NumType, NoMember, StrMember(Base64Encode(<<1, 2>>))) }
   ELSE { UpstreamText(TRUE, StrType(TranscriptionText), StrMember(<<"h", "i">>), NoMember),
          UpstreamText(TRUE, StrType(TranscriptionText), StrMember(<<"y", "o", "u">>), NoMember),
          UpstreamText(TRUE, StrType(TranscriptionText), NoMember, NoMember),
          UpstreamText(TRUE, StrType(TranscriptionText), NumMember, NoMember),
          UpstreamText(TRUE, StrType(TranscriptionFailed), StrMember(<<"h", "i">>), NoMember),
          UpstreamText(TRUE, StrType("session.created"), NoMember, NoMember),
          UpstreamText(TRUE, NoType, StrMember(<<"h", "i">>), NoMember),
          UpstreamText(TRUE, NumType, StrMember(<<"h", "i">>), NoMember) })
  \cup { UpstreamText(FALSE, NoType, NoMember, NoMember),
         UpstreamText(TRUE, StrType("error"), NoMember, NoMember),
         UpstreamOther("Ping"),
         UpstreamCloseMsg(CloseFrame(1011, "internal")),
         UpstreamCloseMsg(NoCloseFrame),
         UpstreamOther("Err"), UpstreamOther("End") }

(***************************************************************************)
(* The event translators.                                                  *)
(***************************************************************************)
NoSend == [send |-> FALSE, frame |-> ClientOther("None")]

\* json_value.get("type").and_then(|v| v.as_str()).unwrap_or("")
MsgType(msg) == IF AsStr(msg.type).some THEN AsStr(msg.type).v ELSE ""

\* A bug to detect: the text of a failed transcription is forwarded too.
AsrTranslateForwardsFailed(msg) ==
  IF ~msg.parses THEN NoSend
  ELSE IF MsgType(msg) \in {TranscriptionText, TranscriptionFailed, "error"} THEN
    (IF AsStr(msg.text).some
     THEN [send |-> TRUE, frame |-> ClientText(AsStr(msg.text).v)]
     ELSE NoSend)
  ELSE NoSend

\* A bug to detect: the text member is forwarded as JSON, in its quotes.
AsrTranslateQuoted(msg) ==
  IF ~msg.parses THEN NoSend
  ELSE IF MsgType(msg) = TranscriptionText THEN
    (IF AsStr(msg.text).some
     THEN [send |-> TRUE, frame |-> ClientText(<<"\"">> \o AsStr(msg.text).v \o <<"\"">>)]
     ELSE NoSend)
  ELSE NoSend

\* Transcription, upstream to client: what one upstream text message makes
\* the bridge send to the client.
AsrTranslate(msg) ==
  IF ~msg.parses THEN NoSend
  ELSE IF MsgType(msg) = TranscriptionText THEN
    (IF AsStr(msg.text).some
     THEN [send |-> TRUE, frame |-> ClientText(AsStr(msg.text).v)]
     ELSE NoSend)
  ELSE NoSend

\* A bug to detect: a delta that does not decode is forwarded as empty audio.
TtsTranslateLenient(msg) ==
  IF ~msg.parses THEN NoSend
  ELSE IF MsgType(msg) # AudioDelta THEN NoSend
  ELSE IF ~AsStr(msg.delta).some THEN NoSend
  ELSE [send |-> TRUE, frame |-> ClientBinary(Base64Decode(AsStr(msg.delta).v).bytes)]

\* A bug to detect: a delta is forwarded whatever the type of its event.
TtsTranslateAnyType(msg) ==
  IF ~msg.parses THEN NoSend
  ELSE IF ~AsStr(msg.delta).some THEN NoSend
  ELSE LET audio_data == Base64Decode(AsStr(msg.delta).v)
       IN IF audio_data.ok
          THEN [send |-> TRUE, frame |-> ClientBinary(audio_data.bytes)]
          ELSE NoSend

\* Synthesis, upstream to client.
TtsTranslate(msg) ==
  IF ~msg.parses THEN NoSend
  ELSE IF MsgType(msg) # AudioDelta THEN NoSend
  ELSE IF ~AsStr(msg.delta).some THEN NoSend
  ELSE LET audio_data == Base64Decode(AsStr(msg.delta).v)
       IN IF audio_data.ok
          THEN [send |-> TRUE, frame |-> ClientBinary(audio_data.bytes)]
          ELSE NoSend

\* A bug to detect: the close sent to the client carries no payload.
CloseToClientNone(close_frame) == NoCloseFrame

\* close_frame.map(|f| CloseFrame { code: f.code.into(), reason: ... })
CloseToClient(close_frame) ==
  IF close_frame.present THEN CloseFrame(close_frame.code, close_frame.reason)
  ELSE NoCloseFrame

\* The close the client-to-upstream loop sends for a client close:
\* WsMessage::Close(None), whatever the client's close frame holds.
CloseToUpstream(close_frame) == NoCloseFrame

(***************************************************************************)
(* The state of a session.                                                 *)
(***************************************************************************)
VARIABLES
  mode,          \* "asr": proxy_asr_realtime, "tts": proxy_tts_realtime
  api_key,       \* the configured credential
  voice,         \* the voice query parameter (synthesis)
  pc,            \* where the bridge function is
  result,        \* what the bridge function returned: "pending", "Ok", "Err"
  connects,      \* calls of connect_async
  upstream,      \* the upstream transport: "none", "open", "released"
  c2uPc,         \* the client-to-upstream future: "idle", "recv", "pace", "done", "dropped"
  u2cPc,         \* the upstream-to-client future: "idle", "recv", "done", "dropped"
  chunks,        \* synthesis: the chunks of the text frame being sent
  chunkIdx,      \* synthesis: the chunk last sent
  upstreamSent,  \* every send call on the upstream transport, with its outcome
  clientSent,    \* every send call on the client transport, with its outcome
  clientRecv,    \* every item client_read.next() returned
  upstreamRecv,  \* every item upstream_read.next() returned
  uuidCount      \* calls of Uuid::now_v7

\* The text preparation of the synthesis bridge, on its own.
VARIABLES
  textPc,        \* "unused", "input", "sanitized", "chunked"
  text,          \* the text of a client text frame
  text_str,      \* sanitize_text(&text)
  text_chunks    \* the chunks built from text_str

\* A request through the HTTP reverse proxy.
VARIABLES
  httpPc,            \* "unused", "received", "sent", "responded"
  headers,           \* the caller's request headers, in the order of HeaderMap::iter
  proxy_api_key,     \* the configured credential, an Option
  request_headers,   \* the headers of the request sent upstream
  upstream_headers,  \* the headers of the upstream response
  response_headers,  \* the headers of the response to the caller
  status             \* the status of the response to the caller, 0 before it

sessionVars ==
  << mode, api_key, voice, pc, result, connects, upstream, c2uPc, u2cPc, chunks,
     chunkIdx, upstreamSent, clientSent, clientRecv, upstreamRecv, uuidCount >>

textVars == << textPc, text, text_str, text_chunks >>

httpVars ==
  << httpPc, headers, proxy_api_key, request_headers, upstream_headers,
     response_headers, status >>

vars == << sessionVars, textVars, httpVars >>

\* The session state of the bridge's state machine.
SessionState ==
  IF pc \in {"request", "connect", "session_update", "settle"} THEN "Connecting"
  ELSE IF pc = "select" THEN "Bridging"
  ELSE "Closed"

\* No text is being prepared.
TextUnused ==
  /\ textPc = "unused"
  /\ text = <<>>
  /\ text_str = <<>>
  /\ text_chunks = <<>>

NoKey == [some |-> FALSE, v |-> ""]
SomeKey(key) == [some |-> TRUE, v |-> key]

\* No request is in the HTTP reverse proxy.
HttpUnused ==
  /\ httpPc = "unused"
  /\ headers = <<>>
  /\ proxy_api_key = NoKey
  /\ request_headers = <<>>
  /\ upstream_headers = <<>>
  /\ response_headers = <<>>
  /\ status = 0

Init ==
  /\ TextUnused
  /\ HttpUnused
  /\ mode \in Modes
  /\ api_key \in ApiKeys
  /\ voice \in (IF mode = "tts" THEN Voices ELSE {""})
  /\ pc = "request"
  /\ result = "pending"
  /\ connects = 0
  /\ upstream = "none"
  /\ c2uPc = "idle"
  /\ u2cPc = "idle"
  /\ chunks = <<>>
  /\ chunkIdx = 0
  /\ upstreamSent = <<>>
  /\ clientSent = <<>>
  /\ clientRecv = <<>>
  /\ upstreamRecv = <<>>
  /\ uuidCount = 0

(***************************************************************************)
(* Session bootstrap.                                                      *)
(***************************************************************************)
\* A bug to detect: the Result is dropped and the function goes on.
IgnoreError(ok, next) == next

\* The ? operator: where the function goes on a Result.
Try(ok, next) == IF ok THEN next ELSE "returned"

\* What the function has returned at a position.
ResultAt(p, ok) == IF p = "returned" THEN (IF ok THEN "Ok" ELSE "Err") ELSE "pending"

\* Url::parse, into_client_request and the Authorization header (and, for
\* transcription, the OpenAI-Beta header): only the credential can fail.
BuildRequest ==
  /\ pc = "request"
  /\ LET ok == HeaderValueOk(api_key)
     IN /\ pc' = Try(ok, "connect")
        /\ result' = ResultAt(pc', ok)
  /\ UNCHANGED << textVars, httpVars >>
  /\ UNCHANGED << mode, api_key, voice, connects, upstream, c2uPc, u2cPc, chunks,
                  chunkIdx, upstreamSent, clientSent, clientRecv, upstreamRecv,
                  uuidCount >>

\* connect_async(request).await?
Connect ==
  /\ pc = "connect"
  /\ connects' = connects + 1
  /\ \E ok \in BOOLEAN :
       /\ pc' = Try(ok, "session_update")
       /\ result' = ResultAt(pc', ok)
       /\ upstream' = IF ok THEN "open" ELSE "none"
  /\ UNCHANGED << textVars, httpVars >>
  /\ UNCHANGED << mode, api_key, voice, c2uPc, u2cPc, chunks, chunkIdx,
                  upstreamSent, clientSent, clientRecv, upstreamRecv, uuidCount >>

SessionConfig == IF mode = "asr" THEN AsrSession ELSE TtsSession(voice)

\* A bug to detect: the bootstrap goes on without sending session.update.
SkipSessionUpdate ==
  /\ pc = "session_update"
  /\ pc' = "settle"
  /\ UNCHANGED << textVars, httpVars >>
  /\ UNCHANGED << mode, api_key, voice, result, connects, upstream, c2uPc, u2cPc,
                  chunks, chunkIdx, upstreamSent, clientSent, clientRecv,
                  upstreamRecv, uuidCount >>

\* upstream_write.send(WsMessage::Text(init_message)).await?
SendSessionUpdate ==
  /\ pc = "session_update"
  /\ uuidCount' = uuidCount + 1
  /\ \E ok \in BOOLEAN :
       /\ upstreamSent' = Append(upstreamSent,
            [msg |-> UpstreamEvent("session.update", uuidCount + 1, <<>>, SessionConfig),
             ok |-> ok])
       /\ pc' = Try(ok, "settle")
       /\ result' = ResultAt(pc', ok)
       /\ upstream' = IF ok THEN "open" ELSE "released"
  /\ UNCHANGED << textVars, httpVars >>
  /\ UNCHANGED << mode, api_key, voice, connects, c2uPc, u2cPc, chunks, chunkIdx,
                  clientSent, clientRecv, upstreamRecv >>

\* The settle sleep ends; the client socket is split and select! starts
\* polling the two loops.
Settle ==
  /\ pc = "settle"
  /\ pc' = "select"
  /\ c2uPc' = "recv"
  /\ u2cPc' = "recv"
  /\ UNCHANGED << textVars, httpVars >>
  /\ UNCHANGED << mode, api_key, voice, result, connects, upstream, chunks,
                  chunkIdx, upstreamSent, clientSent, clientRecv, upstreamRecv,
                  uuidCount >>

(***************************************************************************)
(* The race of the two loops.                                              *)
(***************************************************************************)
\* A bug to detect: the bridge joins the two futures instead of racing them.
JoinReturns(c2u, u2c) == c2u = "done" /\ u2c = "done"

\* tokio::select! over the two futures: it returns when either completes.
SelectReturns(c2u, u2c) == c2u = "done" \/ u2c = "done"

\* What a future still pending becomes when select! returns: it is dropped.
Abandon(p) == IF p = "done" THEN "done" ELSE "dropped"

\* A bug to detect: the bridge reconnects when a loop ends.
AfterPollReconnect(c2u, u2c) ==
  /\ pc' = IF SelectReturns(c2u, u2c) THEN "connect" ELSE "select"
  /\ result' = "pending"
  /\ upstream' = IF SelectReturns(c2u, u2c) THEN "released" ELSE upstream
  /\ c2uPc' = IF SelectReturns(c2u, u2c) THEN Abandon(c2u) ELSE c2u
  /\ u2cPc' = IF SelectReturns(c2u, u2c) THEN Abandon(u2c) ELSE u2c

\* The bridge after a poll that left the futures at c2u and u2c: select!
\* returns in the poll in which a future completes, the function returns
\* Ok(()) and both transports are dropped.
AfterPoll(c2u, u2c) ==
  /\ pc' = IF SelectReturns(c2u, u2c) THEN "returned" ELSE "select"
  /\ result' = IF SelectReturns(c2u, u2c) THEN "Ok" ELSE "pending"
  /\ upstream' = IF SelectReturns(c2u, u2c) THEN "released" ELSE upstream
  /\ c2uPc' = IF SelectReturns(c2u, u2c) THEN Abandon(c2u) ELSE c2u
  /\ u2cPc' = IF SelectReturns(c2u, u2c) THEN Abandon(u2c) ELSE u2c

(***************************************************************************)
(* Client to upstream.  A step of the loop is                              *)
(*   [sent |-> the send calls it makes, ids |-> the event ids it draws,    *)
(*    pc |-> where the loop is after it, idx |-> the chunk last sent].     *)
(* serde_json::to_string of a json! value cannot fail: the branches that   *)
(* handle its error are unreachable and have no step here.                 *)
(***************************************************************************)
Call(msg, ok) == [msg |-> msg, ok |-> ok]

\* A bug to detect: the loop goes on reading after a client close.
AsrClientStepNoBreak(f, ok, ids) ==
  CASE f.kind = "Binary" ->
         [sent |-> << Call(UpstreamEvent("input_audio_buffer.append", ids + 1,
                                          Base64Encode(f.data), NoSession), ok) >>,
          ids |-> ids + 1, pc |-> IF ok THEN "recv" ELSE "done", idx |-> 0]
    [] f.kind = "Close" ->
         [sent |-> << Call(UpstreamClose(CloseToUpstream(f.close)), ok) >>,
          ids |-> ids, pc |-> "recv", idx |-> 0]
    [] f.kind \in {"Err", "End"} ->
         [sent |-> <<>>, ids |-> ids, pc |-> "done", idx |-> 0]
    [] OTHER ->
         [sent |-> <<>>, ids |-> ids, pc |-> "recv", idx |-> 0]

\* Transcription: one item of client_read.
AsrClientStep(f, ok, ids) ==
  CASE f.kind = "Binary" ->
         [sent |-> << Call(UpstreamEvent("input_audio_buffer.append", ids + 1,
                                          Base64Encode(f.data), NoSession), ok) >>,
          ids |-> ids + 1, pc |-> IF ok THEN "recv" ELSE "done", idx |-> 0]
    [] f.kind = "Close" ->
         [sent |-> << Call(UpstreamClose(CloseToUpstream(f.close)), ok) >>,
          ids |-> ids, pc |-> "done", idx |-> 0]
    [] f.kind \in {"Err", "End"} ->
         [sent |-> <<>>, ids |-> ids, pc |-> "done", idx |-> 0]
    [] OTHER ->
         [sent |-> <<>>, ids |-> ids, pc |-> "recv", idx |-> 0]

\* A bug to detect: the loop goes back to reading the client without
\* sending the commit.
CommitSkipped(okC, ids) ==
  [sent |-> <<>>, ids |-> ids, pc |-> "recv", idx |-> 0]

\* Synthesis: the commit that follows the for loop.
CommitStep(okC, ids) ==
  [sent |-> << Call(UpstreamEvent("input_text_buffer.commit", ids + 1, <<>>, NoSession), okC) >>,
   ids |-> ids + 1, pc |-> IF okC THEN "recv" ELSE "done", idx |-> 0]

\* Synthesis: where the for loop goes when the send of a chunk fails: its
\* break leaves the for loop, and the code after the for loop sends the commit.
AppendFailed(okC, ids) == CommitStep(okC, ids)

\* Synthesis: the for loop from chunk i up to its next sleep, or past its
\* end and through the commit.
ForChunks(chs, i, okA, okC, ids) ==
  IF i > Len(chs) THEN CommitStep(okC, ids)
  ELSE
    LET append == Call(UpstreamEvent("input_text_buffer.append", ids + 1, chs[i], NoSession), okA)
    IN IF okA
       THEN [sent |-> <<append>>, ids |-> ids + 1, pc |-> "pace", idx |-> i]
       ELSE LET after == AppendFailed(okC, ids + 1)
            IN [sent |-> <<append>> \o after.sent, ids |-> after.ids,
                pc |-> after.pc, idx |-> after.idx]

\* Synthesis: one item of client_read.
TtsClientStep(f, okA, okC, ids) ==
  CASE f.kind = "Text" -> ForChunks(Chunks(sanitize_text(f.text)), 1, okA, okC, ids)
    [] f.kind = "Close" ->
         [sent |-> << Call(UpstreamClose(CloseToUpstream(f.close)), okA) >>,
          ids |-> ids, pc |-> "done", idx |-> 0]
    [] f.kind \in {"Err", "End"} ->
         [sent |-> <<>>, ids |-> ids, pc |-> "done", idx |-> 0]
    [] OTHER ->
         [sent |-> <<>>, ids |-> ids, pc |-> "recv", idx |-> 0]

\* The chunks held across the sleep of a step.
ChunksHeld(f, step) ==
  IF step.pc = "pace" THEN Chunks(sanitize_text(f.text)) ELSE <<>>

\* Transcription: client_read.next() returns an item and the loop handles it.
AsrClientToUpstream ==
  /\ mode = "asr" /\ pc = "select" /\ c2uPc = "recv"
  /\ Len(clientRecv) + Len(upstreamRecv) < MaxItems
  /\ \E f \in ClientFramesIn(mode), ok \in BOOLEAN :
       LET step == AsrClientStep(f, ok, uuidCount)
       IN /\ clientRecv' = Append(clientRecv, f)
          /\ upstreamSent' = upstreamSent \o step.sent
          /\ uuidCount' = step.ids
          /\ AfterPoll(step.pc, u2cPc)
  /\ UNCHANGED << textVars, httpVars >>
  /\ UNCHANGED << mode, api_key, voice, connects, chunks, chunkIdx, clientSent,
                  upstreamRecv >>

\* A bug to detect: the next client frame is read while the chunks of the
\* current one are still being paced.
TtsClientToUpstreamWhilePacing ==
  /\ mode = "tts" /\ pc = "select" /\ c2uPc \in {"recv", "pace"}
  /\ Len(clientRecv) + Len(upstreamRecv) < MaxItems
  /\ \E f \in ClientFramesIn(mode), okA \in BOOLEAN, okC \in BOOLEAN :
       LET step == TtsClientStep(f, okA, okC, uuidCount)
       IN /\ clientRecv' = Append(clientRecv, f)
          /\ upstreamSent' = upstreamSent \o step.sent
          /\ uuidCount' = step.ids
          /\ chunks' = ChunksHeld(f, step)
          /\ chunkIdx' = step.idx
          /\ AfterPoll(step.pc, u2cPc)
  /\ UNCHANGED << textVars, httpVars >>
  /\ UNCHANGED << mode, api_key, voice, connects, clientSent, upstreamRecv >>

\* Synthesis: client_read.next() returns an item and the loop handles it up
\* to its next suspension point.
TtsClientToUpstream ==
  /\ mode = "tts" /\ pc = "select" /\ c2uPc = "recv"
  /\ Len(clientRecv) + Len(upstreamRecv) < MaxItems
  /\ \E f \in ClientFramesIn(mode), okA \in BOOLEAN, okC \in BOOLEAN :
       LET step == TtsClientStep(f, okA, okC, uuidCount)
       IN /\ clientRecv' = Append(clientRecv, f)
          /\ upstreamSent' = upstreamSent \o step.sent
          /\ uuidCount' = step.ids
          /\ chunks' = ChunksHeld(f, step)
          /\ chunkIdx' = step.idx
          /\ AfterPoll(step.pc, u2cPc)
  /\ UNCHANGED << textVars, httpVars >>
  /\ UNCHANGED << mode, api_key, voice, connects, clientSent, upstreamRecv >>

\* Synthesis: the inter-chunk sleep ends and the for loop goes on.
TtsPaceElapsed ==
  /\ mode = "tts" /\ pc = "select" /\ c2uPc = "pace"
  /\ \E okA \in BOOLEAN, okC \in BOOLEAN :
       LET step == ForChunks(chunks, chunkIdx + 1, okA, okC, uuidCount)
       IN /\ upstreamSent' = upstreamSent \o step.sent
          /\ uuidCount' = step.ids
          /\ chunks' = IF step.pc = "pace" THEN chunks ELSE <<>>
          /\ chunkIdx' = step.idx
          /\ AfterPoll(step.pc, u2cPc)
  /\ UNCHANGED << textVars, httpVars >>
  /\ UNCHANGED << mode, api_key, voice, connects, clientSent, clientRecv,
                  upstreamRecv >>

(***************************************************************************)
(* Upstream to client.  A step of the loop is                              *)
(*   [sent |-> the send calls it makes, pc |-> where the loop is after].   *)
(***************************************************************************)
\* A bug to detect: a receive error is skipped like a frame of no interest.
UpstreamStepSkipsError(translated, msg, ok) ==
  CASE msg.kind = "Text" ->
         (IF translated.send
          THEN [sent |-> << Call(translated.frame, ok) >>,
                pc |-> IF ok THEN "recv" ELSE "done"]
          ELSE [sent |-> <<>>, pc |-> "recv"])
    [] msg.kind = "Close" ->
         [sent |-> << Call(ClientClose(CloseToClient(msg.close)), ok) >>, pc |-> "done"]
    [] msg.kind = "End" -> [sent |-> <<>>, pc |-> "done"]
    [] OTHER -> [sent |-> <<>>, pc |-> "recv"]

\* A bug to detect: a translated frame is sent twice.
UpstreamStepSendsTwice(translated, msg, ok) ==
  CASE msg.kind = "Text" ->
         (IF translated.send
          THEN [sent |-> << Call(translated.frame, TRUE), Call(translated.frame, ok) >>,
                pc |-> IF ok THEN "recv" ELSE "done"]
          ELSE [sent |-> <<>>, pc |-> "recv"])
    [] msg.kind = "Close" ->
         [sent |-> << Call(ClientClose(CloseToClient(msg.close)), ok) >>, pc |-> "done"]
    [] msg.kind \in {"Err", "End"} -> [sent |-> <<>>, pc |-> "done"]
    [] OTHER -> [sent |-> <<>>, pc |-> "recv"]

\* A bug to detect: the loop goes on reading after it forwarded a close.
UpstreamStepCloseContinues(translated, msg, ok) ==
  CASE msg.kind = "Text" ->
         (IF translated.send
          THEN [sent |-> << Call(translated.frame, ok) >>,
                pc |-> IF ok THEN "recv" ELSE "done"]
          ELSE [sent |-> <<>>, pc |-> "recv"])
    [] msg.kind = "Close" ->
         [sent |-> << Call(ClientClose(CloseToClient(msg.close)), ok) >>, pc |-> "recv"]
    [] msg.kind \in {"Err", "End"} -> [sent |-> <<>>, pc |-> "done"]
    [] OTHER -> [sent |-> <<>>, pc |-> "recv"]

\* One item of upstream_read; translated is what the capability's translator
\* makes of it when it is a text message.
UpstreamStep(translated, msg, ok) ==
  CASE msg.kind = "Text" ->
         (IF translated.send
          THEN [sent |-> << Call(translated.frame, ok) >>,
                pc |-> IF ok THEN "recv" ELSE "done"]
          ELSE [sent |-> <<>>, pc |-> "recv"])
    [] msg.kind = "Close" ->
         [sent |-> << Call(ClientClose(CloseToClient(msg.close)), ok) >>, pc |-> "done"]
    [] msg.kind \in {"Err", "End"} -> [sent |-> <<>>, pc |-> "done"]
    [] OTHER -> [sent |-> <<>>, pc |-> "recv"]

\* A bug to detect: the upstream-to-client loop answers an upstream close on
\* the upstream transport, which the other loop writes to.
AsrUpstreamToClientEchoesClose ==
  /\ mode = "asr" /\ pc = "select" /\ u2cPc = "recv"
  /\ Len(clientRecv) + Len(upstreamRecv) < MaxItems
  /\ \E msg \in UpstreamMsgsIn(mode), ok \in BOOLEAN :
       LET step == UpstreamStep(AsrTranslate(msg), msg, ok)
       IN /\ upstreamRecv' = Append(upstreamRecv, msg)
          /\ clientSent' = clientSent \o step.sent
          /\ upstreamSent' = IF msg.kind = "Close"
                             THEN Append(upstreamSent, Call(UpstreamClose(NoCloseFrame), ok))
                             ELSE upstreamSent
          /\ AfterPoll(c2uPc, step.pc)
  /\ UNCHANGED << textVars, httpVars >>
  /\ UNCHANGED << mode, api_key, voice, connects, chunks, chunkIdx, clientRecv,
                  uuidCount >>

\* Transcription: upstream_read.next() returns an item and the loop handles it.
AsrUpstreamToClient ==
  /\ mode = "asr" /\ pc = "select" /\ u2cPc = "recv"
  /\ Len(clientRecv) + Len(upstreamRecv) < MaxItems
  /\ \E msg \in UpstreamMsgsIn(mode), ok \in BOOLEAN :
       LET step == UpstreamStep(AsrTranslate(msg), msg, ok)
       IN /\ upstreamRecv' = Append(upstreamRecv, msg)
          /\ clientSent' = clientSent \o step.sent
          /\ AfterPoll(c2uPc, step.pc)
  /\ UNCHANGED << textVars, httpVars >>
  /\ UNCHANGED << mode, api_key, voice, connects, chunks, chunkIdx, upstreamSent,
                  clientRecv, uuidCount >>

\* A bug to detect: the inter-chunk sleep blocks the thread, so nothing is
\* read from upstream while it lasts.
TtsUpstreamToClientBlockedByPace ==
  /\ mode = "tts" /\ pc = "select" /\ u2cPc = "recv" /\ c2uPc = "recv"
  /\ Len(clientRecv) + Len(upstreamRecv) < MaxItems
  /\ \E msg \in UpstreamMsgsIn(mode), ok \in BOOLEAN :
       LET step == UpstreamStep(TtsTranslate(msg), msg, ok)
       IN /\ upstreamRecv' = Append(upstreamRecv, msg)
          /\ clientSent' = clientSent \o step.sent
          /\ AfterPoll(c2uPc, step.pc)
  /\ UNCHANGED << textVars, httpVars >>
  /\ UNCHANGED << mode, api_key, voice, connects, chunks, chunkIdx, upstreamSent,
                  clientRecv, uuidCount >>

\* Synthesis: upstream_read.next() returns an item and the loop handles it.
TtsUpstreamToClient ==
  /\ mode = "tts" /\ pc = "select" /\ u2cPc = "recv"
  /\ Len(clientRecv) + Len(upstreamRecv) < MaxItems
  /\ \E msg \in UpstreamMsgsIn(mode), ok \in BOOLEAN :
       LET step == UpstreamStep(TtsTranslate(msg), msg, ok)
       IN /\ upstreamRecv' = Append(upstreamRecv, msg)
          /\ clientSent' = clientSent \o step.sent
          /\ AfterPoll(c2uPc, step.pc)
  /\ UNCHANGED << textVars, httpVars >>
  /\ UNCHANGED << mode, api_key, voice, connects, chunks, chunkIdx, upstreamSent,
                  clientRecv, uuidCount >>

Next ==
  \/ BuildRequest
  \/ Connect
  \/ SendSessionUpdate
  \/ Settle
  \/ AsrClientToUpstream
  \/ TtsClientToUpstream
  \/ TtsPaceElapsed
  \/ AsrUpstreamToClient
  \/ TtsUpstreamToClient

Spec == Init /\ [][Next]_vars

\* The bridge under a fair scheduler: select! polls client_to_upstream when
\* the timer of its sleep fires, so a sleep that stays pending while the
\* bridge runs ends.
SpecFair == Init /\ [][Next]_vars /\ WF_vars(TtsPaceElapsed)

(***************************************************************************)
(* The text preparation on its own: sanitize_text and the chunking of its  *)
(* result, applied to every text of a bounded set.                         *)
(***************************************************************************)
\* The characters of the texts: letters of one and three bytes, a digit,
\* the whitespace characters, a comma, a symbol, characters NFKC rewrites
\* and the two jamo.
TextAlphabet ==
  {"a", "zh", "7", SP, LF, CR, TAB, ",", "!", "ELLIPSIS", "FWA", "JL", "JV"}

\* The length of the varied part of a text.
MaxTextLen == 3

TextsUpTo(n) == UNION {[1..k -> TextAlphabet] : k \in 0..n}

\* Letters, of three bytes and of one, that bring a text to two bytes under
\* the chunking threshold.
Padding ==
  Rep("zh", (ChunkThreshold - 2) \div 3) \o Rep("a", (ChunkThreshold - 2) % 3)

\* The texts prepared: every text of up to MaxTextLen characters, on its
\* own or after the padding, and followed or not by a letter.
TextInputs ==
  { pre \o mid \o post :
      pre \in {<<>>, Padding}, mid \in TextsUpTo(MaxTextLen), post \in {<<>>, <<"b">>} }

\* No session is bridged.
SessionUnused ==
  /\ mode = "tts"
  /\ api_key = "sk-key"
  /\ voice = "Cherry"
  /\ pc = "unused"
  /\ result = "pending"
  /\ connects = 0
  /\ upstream = "none"
  /\ c2uPc = "idle"
  /\ u2cPc = "idle"
  /\ chunks = <<>>
  /\ chunkIdx = 0
  /\ upstreamSent = <<>>
  /\ clientSent = <<>>
  /\ clientRecv = <<>>
  /\ upstreamRecv = <<>>
  /\ uuidCount = 0

TextInit ==
  /\ SessionUnused
  /\ HttpUnused
  /\ textPc = "input"
  /\ text \in TextInputs
  /\ text_str = <<>>
  /\ text_chunks = <<>>

\* let text_str = sanitize_text(&text);
SanitizeText ==
  /\ textPc = "input"
  /\ text_str' = sanitize_text(text)
  /\ textPc' = "sanitized"
  /\ UNCHANGED << text, text_chunks, sessionVars, httpVars >>

\* let chunks: Vec<&str> = if text_str.len() > 100 { ... } else { ... };
ChunkText ==
  /\ textPc = "sanitized"
  /\ text_chunks' = Chunks(text_str)
  /\ textPc' = "chunked"
  /\ UNCHANGED << text, text_str, sessionVars, httpVars >>

TextNext ==
  \/ SanitizeText
  \/ ChunkText

SpecText == TextInit /\ [][TextNext]_vars

(***************************************************************************)
(* The HTTP reverse proxy: handle_compatible_mode, and proxy_handler of    *)
(* main.rs, which differs only in reading the credential from the          *)
(* environment.  A HeaderMap is the sequence of its (name, value) pairs in *)
(* the order HeaderMap::iter yields them, the values of one name together. *)
(***************************************************************************)
REQUEST_HEADERS_BLOCKLIST ==
  {"host", "connection", "te", "trailer", "transfer-encoding", "upgrade",
   "origin", "referer"}

RESPONSE_HEADERS_BLOCKLIST ==
  {"connection", "te", "trailer", "transfer-encoding", "upgrade",
   "access-control-allow-origin", "access-control-allow-methods",
   "access-control-allow-headers", "access-control-allow-credentials",
   "access-control-expose-headers", "access-control-max-age"}

AUTHORIZATION == "authorization"

HeaderLine(name, value) == [name |-> name, value |-> value]

\* HeaderMap::contains_key
ContainsKey(map, name) == \E i \in 1..Len(map) : map[i].name = name

\* HeaderMap::insert: the value takes the place of every value the map holds
\* for the name.
HeaderMapInsert(map, name, value) ==
  IF ContainsKey(map, name)
  THEN LET first == CHOOSE i \in 1..Len(map) :
                      map[i].name = name /\ \A j \in 1..(i - 1) : map[j].name # name
           OtherName(line) == line.name # name
       IN SelectSeq(SubSeq(map, 1, first - 1), OtherName)
          \o << HeaderLine(name, value) >>
          \o SelectSeq(SubSeq(map, first + 1, Len(map)), OtherName)
  ELSE Append(map, HeaderLine(name, value))

\* HeaderMap::append, which Builder::header calls: the value is added to the
\* values the map holds for the name.
HeaderMapAppend(map, name, value) ==
  IF ContainsKey(map, name)
  THEN LET last == CHOOSE i \in 1..Len(map) :
                     map[i].name = name /\ \A j \in (i + 1)..Len(map) : map[j].name # name
       IN SubSeq(map, 1, last) \o << HeaderLine(name, value) >>
          \o SubSeq(map, last + 1, Len(map))
  ELSE Append(map, HeaderLine(name, value))

\* for (name, value) in headers.iter() { if !BLOCKLIST.contains(name) { insert } }
RECURSIVE FilterRequestHeaders(_, _)
FilterRequestHeaders(hs, request) ==
  IF hs = <<>> THEN request
  ELSE FilterRequestHeaders(Tail(hs),
         IF Head(hs).name \notin REQUEST_HEADERS_BLOCKLIST
         THEN HeaderMapInsert(request, Head(hs).name, Head(hs).value)
         ELSE request)

\* format!("Bearer {}", key)
Bearer(key) == "Bearer " \o key

\* The Authorization header is set from the configured credential when the
\* filtered request has none, a credential is configured and it forms a
\* header value.
InjectAuthorization(request, key) ==
  IF ~ContainsKey(request, AUTHORIZATION) /\ key.some /\ HeaderValueOk(key.v)
  THEN HeaderMapInsert(request, AUTHORIZATION, Bearer(key.v))
  ELSE request

\* for (name, value) in response.headers().iter() { ... builder.header(name, value) }
RECURSIVE FilterResponseHeaders(_, _)
FilterResponseHeaders(hs, builder) ==
  IF hs = <<>> THEN builder
  ELSE FilterResponseHeaders(Tail(hs),
         IF Head(hs).name \notin RESPONSE_HEADERS_BLOCKLIST
         THEN HeaderMapAppend(builder, Head(hs).name, Head(hs).value)
         ELSE builder)

\* The header lines of one message.
MaxHeaders == 2

\* The values of one name are together in a HeaderMap.
Grouped(map) ==
  \A i, k \in 1..Len(map) :
    (i < k /\ map[i].name = map[k].name) =>
      \A j \in i..k : map[j].name = map[i].name

HeaderMaps(names, values) ==
  { map \in UNION {[1..n -> {HeaderLine(nm, v) : nm \in names, v \in values}] :
                     n \in 0..MaxHeaders} : Grouped(map) }

\* The headers callers send: two the proxy blocks, Authorization, one more.
CallerHeaders ==
  HeaderMaps({"host", "referer", AUTHORIZATION, "accept"}, {"v1", "v2"})

\* The headers upstream answers with: two the proxy blocks, two more.
UpstreamHeaders ==
  HeaderMaps({"connection", "access-control-allow-origin", "content-type", "set-cookie"},
             {"r1"})

ProxyApiKeys == {NoKey} \cup {SomeKey(key) : key \in ApiKeys}

HttpInit ==
  /\ SessionUnused
  /\ TextUnused
  /\ httpPc = "received"
  /\ headers \in CallerHeaders
  /\ proxy_api_key \in ProxyApiKeys
  /\ request_headers = <<>>
  /\ upstream_headers = <<>>
  /\ response_headers = <<>>
  /\ status = 0

\* The handler up to request_builder.send().await.
ProxySend ==
  /\ httpPc = "received"
  /\ request_headers' =
       InjectAuthorization(FilterRequestHeaders(headers, <<>>), proxy_api_key)
  /\ httpPc' = "sent"
  /\ UNCHANGED << headers, proxy_api_key, upstream_headers, response_headers, status,
                  sessionVars, textVars >>

\* send() fails: the handler answers 502 Bad Gateway.
ProxySendFails ==
  /\ httpPc = "sent"
  /\ status' = 502
  /\ httpPc' = "responded"
  /\ UNCHANGED << headers, proxy_api_key, request_headers, upstream_headers,
                  response_headers, sessionVars, textVars >>

\* send() returns the upstream response: the handler answers with its
\* status and its filtered headers.
ProxyRespond ==
  /\ httpPc = "sent"
  /\ \E hs \in UpstreamHeaders, st \in {200, 404} :
       /\ upstream_headers' = hs
       /\ status' = st
       /\ response_headers' = FilterResponseHeaders(hs, <<>>)
  /\ httpPc' = "responded"
  /\ UNCHANGED << headers, proxy_api_key, request_headers, sessionVars, textVars >>

HttpNext ==
  \/ ProxySend
  \/ ProxySendFails
  \/ ProxyRespond

SpecHttp == HttpInit /\ [][HttpNext]_vars

(***************************************************************************)
(* Properties.                                                             *)
(***************************************************************************)
Last(seq) == seq[Len(seq)]

\* The positions of a log whose call satisfies P.
Where(log, P(_)) == {i \in 1..Len(log) : P(log[i])}

IsSessionUpdate(call) == call.msg.kind = "Text" /\ call.msg.type = "session.update"
IsAppend(call) ==
  call.msg.kind = "Text"
  /\ call.msg.type \in {"input_audio_buffer.append", "input_text_buffer.append"}
IsCommit(call) == call.msg.kind = "Text" /\ call.msg.type = "input_text_buffer.commit"
IsClose(call) == call.msg.kind = "Close"
IsCloseItem(item) == item.kind = "Close"
IsErrItem(item) == item.kind = "Err"
IsTextItem(item) == item.kind = "Text"
Failed(call) == ~call.ok

StateRank(st) == CASE st = "Connecting" -> 0 [] st = "Bridging" -> 1 [] OTHER -> 2

\* The step reads one more item from upstream / from the client.
ReadsUpstream == Len(upstreamRecv') = Len(upstreamRecv) + 1
ReadsClient == Len(clientRecv') = Len(clientRecv) + 1

\* C1: a session moves only forward along Connecting, Bridging, Closed; it
\* is Bridging only with the upstream handshake done and the session.update
\* send succeeded; once Closed it stays Closed and connects no more; it
\* never opens a second upstream connection.
C1_SessionStateMachine ==
  /\ [](SessionState = "Bridging" =>
          /\ connects = 1 /\ upstream = "open"
          /\ Where(upstreamSent, IsSessionUpdate) = {1}
          /\ upstreamSent[1].ok)
  /\ [](connects <= 1)
  /\ [][/\ StateRank(SessionState') >= StateRank(SessionState)
        /\ SessionState = "Closed" => (SessionState' = "Closed" /\ connects' = connects)
        /\ (SessionState = "Connecting" /\ SessionState' = "Bridging") =>
             (upstream = "open" /\ upstreamSent # <<>> /\ Last(upstreamSent).ok)]_vars

\* C1 witness: a session that was bridged, forwarded in both directions and closed.
C1_Witness ==
  /\ SessionState = "Closed" /\ result = "Ok" /\ connects = 1
  /\ clientRecv # <<>> /\ upstreamRecv # <<>>

\* C2: when either loop terminates the session is Closed, whether or not
\* the other loop has terminated, and no send is made on either transport
\* from then on.
C2_FirstCompletionCloses ==
  /\ []((c2uPc = "done" \/ u2cPc = "done") => SessionState = "Closed")
  /\ [][(c2uPc = "done" \/ u2cPc = "done" \/ SessionState = "Closed") =>
          (upstreamSent' = upstreamSent /\ clientSent' = clientSent)]_vars

\* C2 witness: the upstream loop ended while the client loop was between
\* two chunks of a text frame; the client loop was abandoned there.
C2_Witness ==
  /\ SessionState = "Closed" /\ u2cPc = "done" /\ c2uPc = "dropped"
  /\ chunks # <<>> /\ chunkIdx < Len(chunks)

\* C3: at most one session.update is ever sent upstream and nothing is sent
\* upstream before it; a session that is bridging, or has read a client
\* frame, or has sent a data event, has sent exactly one, successfully.
C3_OneSessionUpdateFirst ==
  /\ Cardinality(Where(upstreamSent, IsSessionUpdate)) <= 1
  /\ upstreamSent # <<>> => IsSessionUpdate(upstreamSent[1])
  /\ (SessionState = "Bridging" \/ clientRecv # <<>> \/ Len(upstreamSent) > 1) =>
       (Where(upstreamSent, IsSessionUpdate) = {1} /\ upstreamSent[1].ok)

\* C3 witness: data events of two client frames follow the session.update.
C3_Witness ==
  /\ Len(clientRecv) = 2
  /\ Cardinality(Where(upstreamSent, IsAppend)) >= 2
  /\ IsSessionUpdate(upstreamSent[1])

\* C4: a failure of the request build, of the handshake or of the
\* session.update send ends the session with Err; a session that ended with
\* Err never started a loop, read nothing, sent nothing to the client and
\* connected at most once.
C4_SetupFailureIsFatal ==
  /\ (pc # "request" /\ ~HeaderValueOk(api_key)) => (result = "Err" /\ connects = 0)
  /\ (pc # "connect" /\ connects = 1 /\ upstream = "none") => result = "Err"
  /\ Where(upstreamSent, IsSessionUpdate) \cap Where(upstreamSent, Failed) # {} =>
       result = "Err"
  /\ result = "Err" =>
       /\ SessionState = "Closed"
       /\ c2uPc = "idle" /\ u2cPc = "idle"
       /\ clientRecv = <<>> /\ upstreamRecv = <<>> /\ clientSent = <<>>
       /\ Len(upstreamSent) <= 1
       /\ connects <= 1

\* C4 witness: the session.update send failed and the session ended with Err.
C4_Witness ==
  /\ result = "Err" /\ connects = 1
  /\ Len(upstreamSent) = 1 /\ ~upstreamSent[1].ok

\* C5: the step in which the upstream-read loop gets a receive error closes
\* the session, with the client-read loop waiting for a frame and no client
\* frame read in that step.
C5_UpstreamErrorEndsSession ==
  /\ [][(ReadsUpstream /\ IsErrItem(Last(upstreamRecv'))) =>
          (/\ SessionState' = "Closed"
           /\ u2cPc' = "done"
           /\ clientRecv' = clientRecv
           /\ c2uPc \in {"recv", "pace"} => c2uPc' = "dropped")]_vars
  /\ []((upstreamRecv # <<>> /\ IsErrItem(Last(upstreamRecv))) => SessionState = "Closed")

\* C5 witness: the upstream receive error closed a session whose client
\* never sent a frame.
C5_Witness ==
  /\ upstreamRecv # <<>> /\ IsErrItem(Last(upstreamRecv))
  /\ clientRecv = <<>> /\ c2uPc = "dropped" /\ SessionState = "Closed"

\* C6: once a close frame has been read from the client, exactly one close
\* has been sent upstream, it is the last thing sent upstream, and the
\* session is Closed.
C6_ClientCloseClosesUpstream ==
  Where(clientRecv, IsCloseItem) # {} =>
    /\ Where(clientRecv, IsCloseItem) = {Len(clientRecv)}
    /\ Where(upstreamSent, IsClose) = {Len(upstreamSent)}
    /\ SessionState = "Closed"

\* C6 witness: a client close read after a data frame.
C6_Witness ==
  /\ Len(clientRecv) = 2 /\ IsCloseItem(clientRecv[2])
  /\ Cardinality(Where(upstreamSent, IsAppend)) >= 1
  /\ IsClose(Last(upstreamSent))

\* The i-th smallest member of a set of positions.
NthPos(S, i) == CHOOSE p \in S : Cardinality({q \in S : q < p}) = i - 1

\* C7 as claimed: a close read from either side is answered by a close on
\* the other side with the same code and reason whenever it had them.
C7_CloseCodeAndReasonPreserved ==
  /\ \A i \in Where(upstreamRecv, IsCloseItem) :
       /\ clientSent # <<>> /\ IsClose(Last(clientSent))
       /\ upstreamRecv[i].close.present =>
            Last(clientSent).msg.close = upstreamRecv[i].close
  /\ \A i \in Where(clientRecv, IsCloseItem) :
       /\ IsClose(Last(upstreamSent))
       /\ clientRecv[i].close.present =>
            Last(upstreamSent).msg.close = clientRecv[i].close

\* C7 as amended: a close read from upstream is answered by a close to the
\* client with the same code and reason (none when it had none); a close
\* read from the client is answered by an upstream close with no code and
\* no reason, whatever the client's close held.
C7_CloseTranslation ==
  /\ \A i \in Where(upstreamRecv, IsCloseItem) :
       /\ clientSent # <<>> /\ IsClose(Last(clientSent))
       /\ Last(clientSent).msg.close = upstreamRecv[i].close
  /\ \A i \in Where(clientRecv, IsCloseItem) :
       /\ IsClose(Last(upstreamSent))
       /\ Last(upstreamSent).msg.close = NoCloseFrame

\* C7 witness: an upstream close with a code and a reason, forwarded.
C7_Witness ==
  /\ upstreamRecv # <<>> /\ IsCloseItem(Last(upstreamRecv))
  /\ Last(upstreamRecv).close.present
  /\ clientSent # <<>> /\ IsClose(Last(clientSent))
  /\ Last(clientSent).msg.close.present

\* C8 as claimed: a failed send or a receive error is the last thing that
\* happens on its log (the loop sends and reads nothing after it) and the
\* session is Closed.
C8_FailureTerminatesLoop ==
  /\ \A i \in Where(upstreamSent, Failed) :
       i = Len(upstreamSent) /\ SessionState = "Closed"
  /\ \A i \in Where(clientSent, Failed) :
       i = Len(clientSent) /\ SessionState = "Closed"
  /\ \A i \in Where(clientRecv, IsErrItem) :
       i = Len(clientRecv) /\ SessionState = "Closed"
  /\ \A i \in Where(upstreamRecv, IsErrItem) :
       i = Len(upstreamRecv) /\ SessionState = "Closed"

\* C9 as claimed: in synthesis the send calls that precede the j-th commit,
\* back to the commit before it, are the appends of the chunks of the j-th
\* text frame read, one per chunk, in chunk order; no frame has two commits.
C9_AppendPerChunkThenCommit ==
  mode = "tts" =>
    LET commits == Where(upstreamSent, IsCommit)
        texts == Where(clientRecv, IsTextItem)
    IN /\ Cardinality(commits) <= Cardinality(texts)
       /\ \A j \in 1..Cardinality(commits) :
            LET p == NthPos(commits, j)
                q == IF j = 1 THEN 1 ELSE NthPos(commits, j - 1)
                chs == Chunks(sanitize_text(clientRecv[NthPos(texts, j)].text))
            IN /\ p - q - 1 = Len(chs)
               /\ \A k \in 1..(p - q - 1) :
                    /\ IsAppend(upstreamSent[q + k])
                    /\ k <= Len(chs) => upstreamSent[q + k].msg.payload = chs[k]

\* An upstream text message the translators cannot use: it is not JSON, or
\* it is a transcription text event with no text member, or an audio delta
\* event with no delta member or with a delta that is not base64.
Malformed(m) ==
  /\ m.kind = "Text"
  /\ \/ ~m.parses
     \/ /\ mode = "asr" /\ m.type = StrType(TranscriptionText) /\ m.text.t = "absent"
     \/ /\ mode = "tts" /\ m.type = StrType(AudioDelta)
        /\ \/ m.delta.t = "absent"
           \/ m.delta.t = "string" /\ ~Base64Decode(m.delta.v).ok

\* An upstream event the capability forwards.
Forwardable(m) ==
  /\ m.kind = "Text" /\ m.parses
  /\ \/ mode = "asr" /\ m.type = StrType(TranscriptionText) /\ m.text.t = "string"
     \/ /\ mode = "tts" /\ m.type = StrType(AudioDelta)
        /\ m.delta.t = "string" /\ Base64Decode(m.delta.v).ok

\* C10: the step that reads a malformed upstream message sends nothing to
\* the client and leaves the upstream-to-client loop receiving and the
\* session Bridging; the step that reads a forwardable event, whatever was
\* read before it, makes one send to the client.
C10_MalformedUpstreamIsSkipped ==
  [][ReadsUpstream =>
       /\ Malformed(Last(upstreamRecv')) =>
            (clientSent' = clientSent /\ u2cPc' = "recv" /\ SessionState' = "Bridging")
       /\ Forwardable(Last(upstreamRecv')) =>
            /\ Len(clientSent') = Len(clientSent) + 1
            /\ Last(clientSent').msg.kind = (IF mode = "asr" THEN "Text" ELSE "Binary")]_vars

\* C10 witness: two malformed messages, then an event that is forwarded.
C10_Witness ==
  /\ Len(upstreamRecv) = 3
  /\ Malformed(upstreamRecv[1]) /\ upstreamRecv[1].parses
  /\ Malformed(upstreamRecv[2]) /\ ~upstreamRecv[2].parses
  /\ Forwardable(upstreamRecv[3])
  /\ Len(clientSent) = 1 /\ clientSent[1].ok
  /\ SessionState = "Bridging"

\* An upstream event that reports an error: type error, or, in
\* transcription, a failed transcription.
IsErrorEvent(m) ==
  /\ m.kind = "Text" /\ m.parses
  /\ \/ m.type = StrType("error")
     \/ mode = "asr" /\ m.type = StrType(TranscriptionFailed)

\* The calls a step adds to a log.
NewCalls(before, after) == SubSeq(after, Len(before) + 1, Len(after))

\* C11: the step that reads an upstream error event (type error, or in
\* transcription a failed transcription) makes no send to the client and
\* leaves the upstream-to-client loop receiving and the session Bridging; an
\* event read after an error event is still forwarded.
C11_UpstreamErrorEventIsSilent ==
  [][ReadsUpstream =>
       /\ IsErrorEvent(Last(upstreamRecv')) =>
            (clientSent' = clientSent /\ u2cPc' = "recv" /\ SessionState' = "Bridging")
       /\ (Forwardable(Last(upstreamRecv'))
           /\ \E i \in 1..Len(upstreamRecv) : IsErrorEvent(upstreamRecv[i])) =>
            Len(clientSent') = Len(clientSent) + 1]_vars

\* C11 witness: an error event and, in transcription, a failed transcription
\* were read, nothing was sent for them, and the event after them was
\* forwarded.
C11_Witness ==
  /\ Len(upstreamRecv) = 3
  /\ upstreamRecv[1].type = StrType("error")
  /\ IsErrorEvent(upstreamRecv[2]) /\ upstreamRecv[2].type # StrType("error")
  /\ Forwardable(upstreamRecv[3])
  /\ Len(clientSent) = 1 /\ clientSent[1].ok
  /\ SessionState = "Bridging"

\* The audio the upstream events of the model carry.
KnownAudio == { <<1, 2>>, <<255, 0, 7>> }

\* A response.audio.delta event whose delta is the base64 text of audio.
IsValidAudioDelta(m) ==
  /\ m.kind = "Text" /\ m.parses
  /\ m.type = StrType(AudioDelta)
  /\ m.delta.t = "string"
  /\ \E b \in KnownAudio : Base64Encode(b) = m.delta.v

\* The bytes whose base64 text the event's delta is.
AudioOf(m) == CHOOSE b \in KnownAudio : Base64Encode(b) = m.delta.v

\* C12: in synthesis, the step that reads a response.audio.delta event with
\* a valid base64 delta makes exactly one send to the client, of a binary
\* frame whose bytes are the decoded delta; the step that reads anything
\* else sends no binary frame; no step sends a text frame; a step that reads
\* nothing from upstream sends nothing to the client.
C12_AudioDeltaBecomesOneBinaryFrame ==
  [][mode = "tts" =>
       /\ ReadsUpstream =>
            LET m == Last(upstreamRecv')
                new == NewCalls(clientSent, clientSent')
            IN /\ IsValidAudioDelta(m) =>
                    /\ Len(new) = 1
                    /\ new[1].msg = ClientBinary(AudioOf(m))
               /\ ~IsValidAudioDelta(m) =>
                    \A i \in 1..Len(new) : new[i].msg.kind # "Binary"
               /\ \A i \in 1..Len(new) : new[i].msg.kind # "Text"
       /\ ~ReadsUpstream => clientSent' = clientSent]_vars

\* C12 witness: two audio deltas with an event of another type between
\* them, and the two binary frames sent for them.
C12_Witness ==
  /\ mode = "tts"
  /\ Len(upstreamRecv) = 3
  /\ IsValidAudioDelta(upstreamRecv[1]) /\ AudioOf(upstreamRecv[1]) = <<255, 0, 7>>
  /\ upstreamRecv[2].type = StrType("response.done")
  /\ IsValidAudioDelta(upstreamRecv[3]) /\ AudioOf(upstreamRecv[3]) = <<1, 2>>
  /\ Len(clientSent) = 2
  /\ clientSent[1] = Call(ClientBinary(<<255, 0, 7>>), TRUE)
  /\ clientSent[2] = Call(ClientBinary(<<1, 2>>), TRUE)

\* A transcription text event that has a string text member.
IsTranscriptionTextEvent(m) ==
  /\ m.kind = "Text" /\ m.parses
  /\ m.type = StrType(TranscriptionText)
  /\ m.text.t = "string"

\* C13: in transcription, the step that reads a transcription text event
\* with a string text member makes exactly one send to the client, of a
\* text frame whose content is that member; the step that reads anything
\* else sends no text frame, and a step that reads nothing from upstream
\* sends nothing: every text frame sent is the text of such an event.
C13_TranscriptionTextForwardedVerbatim ==
  [][mode = "asr" =>
       /\ ReadsUpstream =>
            LET m == Last(upstreamRecv')
                new == NewCalls(clientSent, clientSent')
            IN /\ IsTranscriptionTextEvent(m) =>
                    /\ Len(new) = 1
                    /\ new[1].msg = ClientText(m.text.v)
               /\ ~IsTranscriptionTextEvent(m) =>
                    \A i \in 1..Len(new) : new[i].msg.kind # "Text"
       /\ ~ReadsUpstream => clientSent' = clientSent]_vars

\* C13 witness: two transcription text events with an event that has no
\* text between them, and the two text frames sent for them.
C13_Witness ==
  /\ mode = "asr"
  /\ Len(upstreamRecv) = 3
  /\ IsTranscriptionTextEvent(upstreamRecv[1])
  /\ upstreamRecv[2].type = StrType(TranscriptionText) /\ upstreamRecv[2].text.t = "absent"
  /\ IsTranscriptionTextEvent(upstreamRecv[3])
  /\ Len(clientSent) = 2
  /\ clientSent[1] = Call(ClientText(<<"y", "o", "u">>), TRUE)
  /\ clientSent[2] = Call(ClientText(<<"h", "i">>), TRUE)

\* The base64 text (RFC 4648, standard alphabet, padded) of the audio
\* frames of the model.
ExpectedBase64(data) ==
  CASE data = <<77, 97>> -> <<"T", "W", "E", "=">>
    [] data = <<255>> -> <<"/", "w", "=", "=">>

\* C14: in transcription, the step that reads a binary frame from the
\* client makes exactly one send upstream, of an input_audio_buffer.append
\* event whose audio is the base64 text of the frame's bytes; the step that
\* reads a text or ping frame sends nothing upstream and leaves the
\* client-to-upstream loop receiving and the session Bridging.
C14_BinaryFrameBecomesOneAppend ==
  [][(mode = "asr" /\ ReadsClient) =>
       LET f == Last(clientRecv')
           new == NewCalls(upstreamSent, upstreamSent')
       IN /\ f.kind = "Binary" =>
               /\ Len(new) = 1
               /\ new[1].msg.kind = "Text"
               /\ new[1].msg.type = "input_audio_buffer.append"
               /\ new[1].msg.payload = ExpectedBase64(f.data)
          /\ f.kind \in {"Text", "Ping", "Pong"} =>
               /\ upstreamSent' = upstreamSent
               /\ c2uPc' = "recv"
               /\ SessionState' = "Bridging"]_vars

\* C14 witness: a text frame, a ping and a binary frame were read, and the
\* only event sent after session.update is the append of the binary frame.
C14_Witness ==
  /\ mode = "asr"
  /\ Len(clientRecv) = 3
  /\ clientRecv[1].kind = "Text"
  /\ clientRecv[2].kind = "Ping"
  /\ clientRecv[3] = ClientBinary(<<255>>)
  /\ Len(upstreamSent) = 2
  /\ upstreamSent[2].msg.type = "input_audio_buffer.append"
  /\ upstreamSent[2].msg.payload = <<"/", "w", "=", "=">>
  /\ upstreamSent[2].ok
  /\ SessionState = "Bridging"

\* Whether sequence a is b with some of its elements left out.
RECURSIVE IsSubsequence(_, _)
IsSubsequence(a, b) ==
  IF a = <<>> THEN TRUE
  ELSE IF b = <<>> THEN FALSE
  ELSE IF Head(a) = Head(b) THEN IsSubsequence(Tail(a), Tail(b))
  ELSE IsSubsequence(a, Tail(b))

\* The chunks of the text frames of a sequence of client frames, in order.
RECURSIVE ChunksOfFrames(_)
ChunksOfFrames(frames) ==
  IF frames = <<>> THEN <<>>
  ELSE (IF Head(frames).kind = "Text" THEN Chunks(sanitize_text(Head(frames).text)) ELSE <<>>)
       \o ChunksOfFrames(Tail(frames))

\* The texts of the append events sent upstream, in the order of their sends.
AppendedTexts ==
  LET appends == SelectSeq(upstreamSent, IsAppend)
  IN [i \in 1..Len(appends) |-> appends[i].msg.payload]

\* The chunks are sent in the order in which they occur in the sanitized
\* texts of the frames read.
ChunksSentInOrder == IsSubsequence(AppendedTexts, ChunksOfFrames(clientRecv))

\* C15: in synthesis, no input_text_buffer.append event sent upstream has
\* the empty text, and the texts of the append events are in the order of
\* the chunks of the sanitized texts.
C15_NoEmptyChunkInOrder ==
  mode = "tts" =>
    /\ \A i \in 1..Len(AppendedTexts) : AppendedTexts[i] # <<>>
    /\ ChunksSentInOrder

\* The whitespace a sanitized text can hold.
IsSpaceOrLf(c) == c \in {SP, LF}
NotSpaceOrLf(c) == c \notin {SP, LF}

\* The number of maximal runs of non-whitespace characters of a text.
TokenCount(s) ==
  Cardinality({i \in 1..Len(s) :
                 NotSpaceOrLf(s[i]) /\ (i = 1 \/ IsSpaceOrLf(s[i - 1]))})

RECURSIVE Flatten(_)
Flatten(seqs) == IF seqs = <<>> THEN <<>> ELSE Head(seqs) \o Flatten(Tail(seqs))

RECURSIVE JoinWithSpaces(_)
JoinWithSpaces(seqs) ==
  IF seqs = <<>> THEN <<>>
  ELSE IF Len(seqs) = 1 THEN seqs[1]
  ELSE seqs[1] \o <<SP>> \o JoinWithSpaces(Tail(seqs))

\* A text with every run of spaces and line-feeds made one space.
RECURSIVE CollapseWhitespace(_)
CollapseWhitespace(s) ==
  IF s = <<>> THEN <<>>
  ELSE IF IsSpaceOrLf(Head(s))
       THEN (IF Len(s) >= 2 /\ IsSpaceOrLf(s[2]) THEN <<>> ELSE <<SP>>)
            \o CollapseWhitespace(Tail(s))
  ELSE <<Head(s)>> \o CollapseWhitespace(Tail(s))

\* C17: for a sanitized text of more than 100 bytes, the chunks joined with
\* single spaces are the sanitized text with every run of spaces and
\* line-feeds collapsed to one space.
C17_ChunksJoinToCollapsedText ==
  (textPc = "chunked" /\ ByteLen(text_str) > 100) =>
    JoinWithSpaces(text_chunks) = CollapseWhitespace(text_str)

\* C17 witness: a sanitized text of more than 100 bytes in which a space
\* and a line-feed separate two tokens.
C17_Witness ==
  /\ textPc = "chunked"
  /\ ByteLen(text_str) > 100
  /\ \E i \in 1..(Len(text_str) - 1) : text_str[i] = SP /\ text_str[i + 1] = LF
  /\ Len(text_chunks) = 2

\* C18: sanitizing a sanitized text gives the same text.
C18_SanitizeIdempotent ==
  textPc \in {"sanitized", "chunked"} => sanitize_text(text_str) = text_str

\* The characters the claim lists: letters, digits, separator spaces, the
\* three comma forms, the three period forms and line-feed.
Kept(c) ==
  \/ IsLetter(c) \/ IsNumber(c) \/ IsSeparatorSpace(c)
  \/ c \in {",", "FWCOMMA", "IDCOMMA"}
  \/ c \in {".", "FWSTOP", "IDSTOP"}
  \/ c = LF

KeptVisible(c) == Kept(c) /\ ~IsWhitespace(c)
Visible(c) == ~IsWhitespace(c)
KeptOrWhitespace(c) == Kept(c) \/ IsWhitespace(c)

\* C19 as stated: the sanitized text holds only kept characters, and every
\* other character of the input is deleted without substitution: the
\* sanitized text is that of the input without those characters.
C19_OtherCharactersDeleted ==
  textPc \in {"sanitized", "chunked"} =>
    /\ \A i \in 1..Len(text_str) : Kept(text_str[i])
    /\ text_str = sanitize_text(SelectSeq(text, KeptOrWhitespace))

\* C19: the sanitized text holds only kept characters, and its characters
\* other than whitespace are, in order, the kept characters of the NFKC
\* form of the input: a character not kept is deleted from the normalized
\* text, not from the input.
C19_OnlyKeptCharactersOfNfkcForm ==
  textPc \in {"sanitized", "chunked"} =>
    /\ \A i \in 1..Len(text_str) : Kept(text_str[i])
    /\ SelectSeq(text_str, Visible) = SelectSeq(NfkcText(text), KeptVisible)

\* C19 witness: an exclamation mark is deleted, and an ellipsis, which is
\* not a kept character, leaves the three periods of its NFKC form.
C19_Witness ==
  /\ textPc = "sanitized"
  /\ text = <<"a", "!", "ELLIPSIS">>
  /\ text_str = <<"a", ".", ".", ".">>

IsAuthorization(line) == line.name = AUTHORIZATION
RequestForwardable(line) == line.name \notin REQUEST_HEADERS_BLOCKLIST
ResponseForwardable(line) == line.name \notin RESPONSE_HEADERS_BLOCKLIST

\* No header of the request blocklist is sent upstream, and none of the
\* response blocklist is sent to the caller.
BlockedHeadersDropped ==
  /\ \A i \in 1..Len(request_headers) : RequestForwardable(request_headers[i])
  /\ \A i \in 1..Len(response_headers) : ResponseForwardable(response_headers[i])

\* Every other header of the caller's request is sent upstream.
OtherRequestHeadersForwarded ==
  httpPc \in {"sent", "responded"} =>
    \A i \in 1..Len(headers) :
      RequestForwardable(headers[i]) =>
        \E j \in 1..Len(request_headers) : request_headers[j] = headers[i]

\* Every other header of the upstream response is sent to the caller, and
\* nothing else is.
OtherResponseHeadersForwarded ==
  (httpPc = "responded" /\ status # 502) =>
    response_headers = SelectSeq(upstream_headers, ResponseForwardable)

\* The bearer header is sent upstream only when the caller sent no
\* Authorization header; every header sent upstream is the caller's or the
\* bearer header.
AuthorizationInjectedOnlyWhenAbsent ==
  httpPc \in {"sent", "responded"} =>
    \A j \in 1..Len(request_headers) :
      \/ \E i \in 1..Len(headers) : headers[i] = request_headers[j]
      \/ /\ ~ContainsKey(headers, AUTHORIZATION)
         /\ proxy_api_key.some
         /\ request_headers[j] = HeaderLine(AUTHORIZATION, Bearer(proxy_api_key.v))

\* C20: the proxy sends no blocklisted request header upstream and no
\* blocklisted response header to the caller, sends every other header on,
\* and adds the bearer Authorization header only to a request that has no
\* Authorization header.
C20_HeadersFilteredAndForwarded ==
  /\ BlockedHeadersDropped
  /\ OtherRequestHeadersForwarded
  /\ OtherResponseHeadersForwarded
  /\ AuthorizationInjectedOnlyWhenAbsent

\* The one event type the capability forwards to the client.
ForwardedType == IF mode = "asr" THEN TranscriptionText ELSE AudioDelta

\* An upstream JSON message whose type is missing, not a string, or not
\* the forwarded type.
HasOtherType(m) ==
  /\ m.kind = "Text" /\ m.parses
  /\ m.type # StrType(ForwardedType)

\* C21: the step that reads an upstream JSON message whose type is missing,
\* not a string, or different from the forwarded type of the capability
\* makes no send to the client, whatever text or delta the message carries.
C21_TypeIsSoleRoutingKey ==
  [][(ReadsUpstream /\ HasOtherType(Last(upstreamRecv'))) =>
       clientSent' = clientSent]_vars

\* C21 witness: three messages that carry a forwardable text or delta, one
\* with no type, one with a type that is not a string and one with
\* another type, were read and nothing was sent to the client.
C21_Witness ==
  /\ Len(upstreamRecv) = 3
  /\ upstreamRecv[1].type = NoType
  /\ upstreamRecv[2].type = NumType
  /\ upstreamRecv[3].type \in {StrType("response.done"), StrType(TranscriptionFailed)}
  /\ \A i \in 1..3 :
       /\ upstreamRecv[i].parses
       /\ (IF mode = "asr" THEN upstreamRecv[i].text ELSE upstreamRecv[i].delta).t = "string"
  /\ clientSent = <<>>
  /\ SessionState = "Bridging"

\* The step is one of the client-to-upstream loop: it reads from the
\* client, or it resumes from the inter-chunk sleep.
ClientLoopSteps == ReadsClient \/ (c2uPc = "pace" /\ ~ReadsUpstream)

\* C22: while the session is Bridging, a step that sends on the upstream
\* transport is a step of the client-to-upstream loop and sends nothing to
\* the client, and a step that sends on the client transport is a step of
\* the upstream-to-client loop and sends nothing upstream: no step has
\* sends of both loops, or sends on both transports.
C22_SingleWriterPerTransport ==
  [][SessionState = "Bridging" =>
       /\ upstreamSent' # upstreamSent =>
            (ClientLoopSteps /\ clientSent' = clientSent /\ upstreamRecv' = upstreamRecv)
       /\ clientSent' # clientSent =>
            /\ ReadsUpstream
            /\ upstreamSent' = upstreamSent
            /\ clientRecv' = clientRecv
            /\ chunkIdx' = chunkIdx /\ uuidCount' = uuidCount]_vars

\* C22 witness: both loops have sent, the upstream-to-client loop to the
\* client while the client-to-upstream loop sleeps between two chunks.
C22_Witness ==
  /\ SessionState = "Bridging"
  /\ c2uPc = "pace"
  /\ Len(upstreamSent) = 2 /\ IsAppend(upstreamSent[2])
  /\ Len(clientSent) = 1 /\ clientSent[1].msg.kind = "Binary"
  /\ Last(upstreamRecv).kind = "Text" /\ clientRecv[1].kind = "Text"

\* The model reads no more than MaxItems items in a session.
MayRead == Len(clientRecv) + Len(upstreamRecv) < MaxItems

\* An upstream message is read and a frame is sent to the client for it.
ForwardsUpstreamMessage ==
  /\ AsrUpstreamToClient \/ TtsUpstreamToClient
  /\ Len(clientSent') = Len(clientSent) + 1

\* The settle sleep is pending / the inter-chunk sleep is pending.
SettlePending == pc = "settle"
PacePending == pc = "select" /\ c2uPc = "pace"

\* C23 as stated: while either delay is pending an upstream message can be
\* read and forwarded to the client.
C23_NoDelayBlocksUpstream ==
  ((SettlePending \/ PacePending) /\ MayRead) => ENABLED ForwardsUpstreamMessage

\* C23: while the inter-chunk sleep is pending an upstream message can be
\* read and forwarded to the client, the sleep still pending after it;
\* while the settle sleep is pending neither loop has started and nothing
\* is read from upstream or from the client.
C23_OnlyInterChunkDelayDoesNotBlock ==
  /\ (PacePending /\ MayRead) => ENABLED (ForwardsUpstreamMessage /\ c2uPc' = "pace")
  /\ SettlePending =>
       ~ENABLED (\/ AsrUpstreamToClient \/ TtsUpstreamToClient
                 \/ AsrClientToUpstream \/ TtsClientToUpstream)

\* C23 witness: two audio deltas were read and forwarded and the
\* inter-chunk sleep of the first chunk of two is pending.
C23_Witness ==
  /\ PacePending
  /\ chunkIdx = 1 /\ Len(chunks) = 2
  /\ Len(upstreamRecv) = 2
  /\ Len(clientSent) = 2 /\ clientSent[2].msg.kind = "Binary"

\* The session.update event of the session, once it is sent.
SessionUpdateSent == upstreamSent # <<>> /\ IsSessionUpdate(upstreamSent[1])

\* The transcription half of C24: a text-only modality set, PCM input at
\* 16000 Hz, server-driven voice-activity detection.
AsrConfigAsClaimed ==
  LET session == upstreamSent[1].msg.session
  IN /\ session.modalities = <<"text">>
     /\ session.input_audio_format = "pcm"
     /\ session.sample_rate = 16000
     /\ session.turn_detection = "server_vad"

\* C24 as stated: the transcription session as claimed, and the synthesis
\* session with an audio-capable modality set, PCM output at 24000 Hz and
\* the voice of the query.
C24_SessionUpdateHasModalities ==
  SessionUpdateSent =>
    LET session == upstreamSent[1].msg.session
    IN IF mode = "asr" THEN AsrConfigAsClaimed
       ELSE /\ \E i \in 1..Len(session.modalities) : session.modalities[i] = "audio"
            /\ session.response_format = "pcm"
            /\ session.sample_rate = 24000
            /\ session.voice = voice

\* C24: the transcription session as claimed with no voice and no response
\* format; the synthesis session holds PCM output at 24000 Hz and the
\* voice of the query, and nothing else: no modality set, no input format,
\* no voice-activity detection.
C24_SessionUpdateConfiguration ==
  SessionUpdateSent =>
    LET session == upstreamSent[1].msg.session
    IN IF mode = "asr"
       THEN /\ AsrConfigAsClaimed
            /\ session.voice = "" /\ session.response_format = ""
       ELSE /\ session.response_format = "pcm"
            /\ session.sample_rate = 24000
            /\ session.voice = voice
            /\ session.modalities = <<>>
            /\ session.input_audio_format = ""
            /\ session.turn_detection = ""

\* C24 witness: a synthesis session whose voice is not the first of the
\* voices has sent its session.update.
C24_Witness ==
  /\ mode = "tts" /\ voice = "Ethan"
  /\ SessionUpdateSent /\ upstreamSent[1].ok
  /\ upstreamSent[1].msg.session.voice = "Ethan"

\* C25: the sanitized text has no two spaces in a row and no three
\* line-feeds in a row, and neither begins nor ends with whitespace.
C25_SanitizedIsCompressed ==
  textPc \in {"sanitized", "chunked"} =>
    /\ \A i \in 1..(Len(text_str) - 1) : ~(text_str[i] = SP /\ text_str[i + 1] = SP)
    /\ \A i \in 1..(Len(text_str) - 2) :
         ~(text_str[i] = LF /\ text_str[i + 1] = LF /\ text_str[i + 2] = LF)
    /\ text_str # <<>> =>
         (~IsWhitespace(text_str[1]) /\ ~IsWhitespace(text_str[Len(text_str)]))

\* C25 witness: three line-feeds between two lines of content became two.
C25_Witness ==
  /\ textPc = "sanitized"
  /\ text = Padding \o <<LF, LF, LF, "b">>
  /\ text_str = Padding \o <<LF, LF, "b">>

\* A close in the log is the last call of the log.
CloseIsLast(log) == \A i \in 1..Len(log) : IsClose(log[i]) => i = Len(log)

\* C26: on each transport a close is the last send of the session, so
\* there is at most one close and no frame or event is sent after it.
C26_CloseIsLastFrame ==
  /\ CloseIsLast(upstreamSent)
  /\ CloseIsLast(clientSent)

\* C26 witness: two frames were forwarded to the client and then the
\* upstream close; the session is Closed.
C26_Witness ==
  /\ Len(clientSent) = 3
  /\ ~IsClose(clientSent[1]) /\ ~IsClose(clientSent[2]) /\ IsClose(clientSent[3])
  /\ SessionState = "Closed"

\* The frame the capability sends to the client for a forwarded event.
FrameFor(m) == IF mode = "asr" THEN ClientText(m.text.v) ELSE ClientBinary(AudioOf(m))

\* An upstream event the capability forwards, by its fields alone.
IsForwardedEvent(m) ==
  IF mode = "asr" THEN IsTranscriptionTextEvent(m) ELSE IsValidAudioDelta(m)

NotCloseCall(call) == ~IsClose(call)
IsBinaryItem(item) == item.kind = "Binary"

\* The frames sent to the client but the close, and the frames of the
\* forwarded events read, each in its order.
FramesSent ==
  LET calls == SelectSeq(clientSent, NotCloseCall)
  IN [i \in 1..Len(calls) |-> calls[i].msg]

FramesOfEventsRead ==
  LET events == SelectSeq(upstreamRecv, IsForwardedEvent)
  IN [i \in 1..Len(events) |-> FrameFor(events[i])]

\* The audio of the binary frames read from the client, in base64.
AudioOfFramesRead ==
  LET frames == SelectSeq(clientRecv, IsBinaryItem)
  IN [i \in 1..Len(frames) |-> ExpectedBase64(frames[i].data)]

\* C27: the frames sent to the client are the frames of the forwarded
\* upstream events, one for one and in the order the events were read; in
\* transcription the audio sent upstream is that of the binary frames read
\* from the client, one for one and in order; in synthesis the texts sent
\* upstream are chunks of the text frames read, each at most once and in
\* the order of the chunks.
C27_ForwardingPreservesOrder ==
  /\ FramesSent = FramesOfEventsRead
  /\ mode = "asr" => AppendedTexts = AudioOfFramesRead
  /\ mode = "tts" => ChunksSentInOrder

\* C27 witness: two different transcription texts were forwarded in the
\* order they were read, after a binary frame was sent upstream.
C27_Witness ==
  /\ mode = "asr"
  /\ Len(FramesSent) = 2 /\ FramesSent[1] # FramesSent[2]
  /\ FramesSent = FramesOfEventsRead
  /\ Len(AppendedTexts) = 1

\* The commits sent so far, and the text frames read so far.
CommitsSent == Cardinality(Where(upstreamSent, IsCommit))
TextFramesRead == SelectSeq(clientRecv, IsTextItem)

\* The commits sent before position i of the upstream log.
CommitsBefore(i) == Cardinality({j \in 1..(i - 1) : IsCommit(upstreamSent[j])})

\* C28: in synthesis, the append events sent after k commits carry chunks
\* of text frame k + 1, so no append of a later frame precedes the commit
\* of an earlier one; at most one text frame is without its commit; and a
\* step that reads the next client frame starts with a commit sent for
\* every text frame read before.
C28_UtterancesDoNotInterleave ==
  /\ [](mode = "tts" =>
          /\ CommitsSent <= Len(TextFramesRead)
          /\ Len(TextFramesRead) <= CommitsSent + 1
          /\ \A i \in 1..Len(upstreamSent) :
               IsAppend(upstreamSent[i]) =>
                 /\ CommitsBefore(i) < Len(TextFramesRead)
                 /\ LET chs == Chunks(sanitize_text(TextFramesRead[CommitsBefore(i) + 1].text))
                    IN \E k \in 1..Len(chs) : chs[k] = upstreamSent[i].msg.payload)
  /\ [][(mode = "tts" /\ ReadsClient) => CommitsSent = Len(TextFramesRead)]_vars

\* C28 witness: two text frames were read; the appends of the first, its
\* commit, and the first append of the second were sent, in that order.
C28_Witness ==
  /\ mode = "tts"
  /\ Len(TextFramesRead) = 2 /\ TextFramesRead[1] # TextFramesRead[2]
  /\ CommitsSent = 1
  /\ \E i \in 2..(Len(upstreamSent) - 1) :
       /\ IsCommit(upstreamSent[i])
       /\ IsAppend(upstreamSent[i - 1])
       /\ IsAppend(upstreamSent[i + 1])

\* Every send call made to the upstream so far succeeded.
UpstreamSendsOk == \A i \in 1..Len(upstreamSent) : upstreamSent[i].ok

\* C29: in synthesis under a fair scheduler, once n text frames are read
\* either n commits are sent, or the session is Closed, or an upstream
\* send failed; and once client_to_upstream is dropped by select!, no
\* further event (append or commit) is sent to the upstream.
C29_CommitFollowsUnlessClosed ==
  /\ \A n \in 1..MaxItems :
       (mode = "tts" /\ Len(TextFramesRead) = n)
         ~> (CommitsSent >= n \/ SessionState = "Closed" \/ ~UpstreamSendsOk)
  /\ [][(mode = "tts" /\ c2uPc = "dropped")
          => (c2uPc' = "dropped" /\ upstreamSent' = upstreamSent)]_vars

\* C29 witness: the first text frame got its commit after its pacing; the
\* second was being paced when upstream_to_client ended, and the session
\* is Closed with its commit unsent.
C29_Witness ==
  /\ mode = "tts"
  /\ SessionState = "Closed"
  /\ c2uPc = "dropped" /\ u2cPc = "done"
  /\ UpstreamSendsOk
  /\ Len(TextFramesRead) = 2
  /\ CommitsSent = 1
  /\ IsAppend(Last(upstreamSent))

====
